---------------------------- MODULE Spec2Model ----------------------------
(***************************************************************************)
(* A model of the request-file parser (package request): Parser.Parse and  *)
(* the helpers it drives (exec, parseRequest, parseRequestLine, parseURL,   *)
(* parseHeaders, parseBody, appendFile, file, isComment), together with the *)
(* behaviour of the library readers it is built on (textproto.Reader over a *)
(* bufio.Reader, strings.Fields, url.Parse, filepath.Join, text/template).  *)
(*                                                                         *)
(* Text is a sequence of one-character strings.  A file is a list of lines  *)
(* joined with "\n"; the reader works on the characters, not on the lines.  *)
(***************************************************************************)
EXTENDS Integers, Sequences, FiniteSets, TLC

VARIABLES
    BaseURL,    \* Parser.BaseURL
    Path,       \* Parser.Path
    data,       \* the caller's template data: <<>> (no Host field) or <<host>>
    src,        \* the lines of the main file, as written (input, never changes)
    pc,         \* where Parse stands: start, request, headers, body, done
    rd,         \* the unread characters of the rendered text (the Reader's cursor)
    req,        \* the *http.Request under construction: <<>> (nil) or <<record>>
    sb,         \* parseBody's strings.Builder
    eofNL,      \* whether the last line of the main file ends with "\n"
    line,       \* parseRequest's local: <<>> before it read, then <<the logical line read last>>
    ret,        \* what Parse returned: [req, err] (meaningful when pc = "done")
    nskip       \* comment lines parseRequest has skipped so far

vars == <<BaseURL, Path, data, src, eofNL, pc, rd, req, sb, line, ret, nskip>>

----------------------------------------------------------------------------
(* Characters *)

LF == "\n"
CR == "\r"
SP == " "
TAB == "\t"

\* a line terminator of "\n" alone
bareLF == <<LF>>

\* const httpEOL = "\r\n"
httpEOL == <<CR, LF>>

Letters == {"G", "g", "P", "p", "U", "u", "b", "B", "c", "C", "f", "F", "k", "K", "h", "H", "m", "M", "t", "T", "X", "x"}

Lower(c) ==
    CASE c = "G" -> "g" [] c = "P" -> "p" [] c = "U" -> "u" [] c = "B" -> "b"
      [] c = "C" -> "c" [] c = "F" -> "f" [] c = "K" -> "k" [] c = "H" -> "h"
      [] c = "M" -> "m" [] c = "T" -> "t" [] c = "X" -> "x" [] OTHER -> c

Upper(c) ==
    CASE c = "g" -> "G" [] c = "p" -> "P" [] c = "u" -> "U" [] c = "b" -> "B"
      [] c = "c" -> "C" [] c = "f" -> "F" [] c = "k" -> "K" [] c = "h" -> "H"
      [] c = "m" -> "M" [] c = "t" -> "T" [] c = "x" -> "X" [] OTHER -> c

\* unicode.IsSpace on the characters used here
IsSpace(c) == c \in {SP, TAB, LF, CR}

\* the blanks textproto trims and skips: ' ' and '\t'
IsBlank(c) == c \in {SP, TAB}

----------------------------------------------------------------------------
(* strings helpers *)

\* strings.Index for a single character: 0 when absent
IndexOf(s, c) ==
    IF \E i \in 1..Len(s) : s[i] = c
    THEN CHOOSE i \in 1..Len(s) : s[i] = c /\ \A j \in 1..(i-1) : s[j] # c
    ELSE 0

\* strings.LastIndex for a single character: 0 when absent
LastIndexOf(s, c) ==
    IF \E i \in 1..Len(s) : s[i] = c
    THEN CHOOSE i \in 1..Len(s) : s[i] = c /\ \A j \in (i+1)..Len(s) : s[j] # c
    ELSE 0

Contains(s, c) == \E i \in 1..Len(s) : s[i] = c

From(s, i) == SubSeq(s, i, Len(s))

\* strings.HasPrefix
HasPrefix(s, p) == Len(s) >= Len(p) /\ SubSeq(s, 1, Len(p)) = p

\* the number of leading characters of s that satisfy the blank test
LeadBlanks(s) ==
    IF \E i \in 1..Len(s) : ~IsBlank(s[i])
    THEN (CHOOSE i \in 1..Len(s) : ~IsBlank(s[i]) /\ \A j \in 1..(i-1) : IsBlank(s[j])) - 1
    ELSE Len(s)

TrailBlanks(s) ==
    IF \E i \in 1..Len(s) : ~IsBlank(s[i])
    THEN Len(s) - (CHOOSE i \in 1..Len(s) : ~IsBlank(s[i]) /\ \A j \in (i+1)..Len(s) : IsBlank(s[j]))
    ELSE Len(s)

\* textproto's trim: leading and trailing ' ' and '\t' removed
trim(s) ==
    IF LeadBlanks(s) = Len(s) THEN <<>>
    ELSE SubSeq(s, LeadBlanks(s) + 1, Len(s) - TrailBlanks(s))

LeadSpaces(s) ==
    IF \E i \in 1..Len(s) : ~IsSpace(s[i])
    THEN (CHOOSE i \in 1..Len(s) : ~IsSpace(s[i]) /\ \A j \in 1..(i-1) : IsSpace(s[j])) - 1
    ELSE Len(s)

TrailSpaces(s) ==
    IF \E i \in 1..Len(s) : ~IsSpace(s[i])
    THEN Len(s) - (CHOOSE i \in 1..Len(s) : ~IsSpace(s[i]) /\ \A j \in (i+1)..Len(s) : IsSpace(s[j]))
    ELSE Len(s)

\* strings.TrimSpace
TrimSpace(s) ==
    IF LeadSpaces(s) = Len(s) THEN <<>>
    ELSE SubSeq(s, LeadSpaces(s) + 1, Len(s) - TrailSpaces(s))

\* the length of the first run of non-space characters of s (s starts with one)
WordLen(s) ==
    IF \E i \in 1..Len(s) : IsSpace(s[i])
    THEN (CHOOSE i \in 1..Len(s) : IsSpace(s[i]) /\ \A j \in 1..(i-1) : ~IsSpace(s[j])) - 1
    ELSE Len(s)

\* strings.Fields: the maximal runs of non-space characters, in order
RECURSIVE Fields(_)
Fields(s) ==
    LET t == From(s, LeadSpaces(s) + 1)
    IN  IF t = <<>> THEN <<>>
        ELSE <<SubSeq(t, 1, WordLen(t))>> \o Fields(From(t, WordLen(t) + 1))

\* the concatenation of a list of texts
RECURSIVE Concat(_)
Concat(ss) == IF ss = <<>> THEN <<>> ELSE Head(ss) \o Concat(Tail(ss))

----------------------------------------------------------------------------
(* textproto.Reader over bufio.Reader.  A reader is the text not yet read. *)

\* Reader.ReadLine / readLineSlice (bufio.Reader.ReadLine): the characters up
\* to the next "\n", without the "\n" and without a "\r" right before it; the
\* rest of the input when it holds no "\n"; end of input when nothing is left
readLine(r) ==
    IF r = <<>> THEN [eof |-> TRUE, line |-> <<>>, rest |-> <<>>]
    ELSE LET i == IndexOf(r, LF)
         IN  IF i = 0 THEN [eof |-> FALSE, line |-> r, rest |-> <<>>]
             ELSE [eof  |-> FALSE,
                   line |-> IF i > 1 /\ r[i-1] = CR THEN SubSeq(r, 1, i-2)
                            ELSE SubSeq(r, 1, i-1),
                   rest |-> From(r, i+1)]

\* the loop of readContinuedLineSlice: while skipSpace() finds blanks at the
\* start of the next line, a single space and the trimmed line are appended;
\* a read that fails after the space was appended ends the loop
RECURSIVE continued(_, _)
continued(acc, r) ==
    IF LeadBlanks(r) = 0 THEN [eof |-> FALSE, line |-> acc, rest |-> r]
    ELSE LET r2 == From(r, LeadBlanks(r) + 1)
             l2 == readLine(r2)
         IN  IF l2.eof THEN [eof |-> FALSE, line |-> acc \o <<SP>>, rest |-> r2]
             ELSE continued(acc \o <<SP>> \o trim(l2.line), l2.rest)

\* Reader.ReadContinuedLine: a blank first line is returned as it is, any
\* other first line is trimmed and folded with its continuation lines
ReadContinuedLine(r) ==
    LET first == readLine(r)
    IN  IF first.eof THEN [eof |-> TRUE, line |-> <<>>, rest |-> r]
        ELSE IF first.line = <<>> THEN first
        ELSE continued(trim(first.line), first.rest)

\* validHeaderFieldByte on the characters used here (RFC 7230 token characters)
validHeaderFieldByte(c) == c \in Letters \cup {"#", "%"}

\* canonicalMIMEHeaderKey's casing: upper case at the start and after '-',
\* lower case elsewhere
RECURSIVE canonCase(_, _)
canonCase(k, upper) ==
    IF k = <<>> THEN <<>>
    ELSE <<IF upper THEN Upper(Head(k)) ELSE Lower(Head(k))>>
         \o canonCase(Tail(k), Head(k) = "-")

\* canonicalMIMEHeaderKey: a key with a byte that is neither a token
\* character nor a space is refused; a key with a space is kept as written
canonicalMIMEHeaderKey(k) ==
    IF \E i \in 1..Len(k) : ~validHeaderFieldByte(k[i]) /\ k[i] # SP
    THEN [ok |-> FALSE, key |-> k]
    ELSE IF Contains(k, SP) THEN [ok |-> TRUE, key |-> k]
    ELSE [ok |-> TRUE, key |-> canonCase(k, TRUE)]

\* validHeaderValueByte: control characters other than tab are refused
validHeaderValueByte(c) == c \notin {CR, LF}

\* m[key] = append(m[key], value)
addHeader(h, key, value) ==
    IF key \in DOMAIN h THEN [h EXCEPT ![key] = Append(@, value)]
    ELSE h @@ (key :> <<value>>)

\* the loop of readMIMEHeader.  err is "nil" (a blank line ended the block),
\* "EOF" (the input ended) or "malformed" (a ProtocolError)
RECURSIVE mimeLoop(_, _)
mimeLoop(h, r) ==
    LET first == readLine(r)
    IN  IF first.eof THEN [h |-> h, err |-> "EOF", rest |-> r]
        ELSE IF first.line = <<>> THEN [h |-> h, err |-> "nil", rest |-> first.rest]
        ELSE IF ~Contains(first.line, ":")       \* mustHaveFieldNameColon
        THEN [h |-> h, err |-> "malformed", rest |-> first.rest]
        ELSE LET c  == continued(trim(first.line), first.rest)
                 kv == c.line
                 i  == IndexOf(kv, ":")
                 k  == SubSeq(kv, 1, i-1)
                 v  == From(kv, i+1)
                 ck == canonicalMIMEHeaderKey(k)
             IN  IF kv = <<>> THEN [h |-> h, err |-> "nil", rest |-> c.rest]
                 ELSE IF ~ck.ok \/ \E j \in 1..Len(v) : ~validHeaderValueByte(v[j])
                 THEN [h |-> h, err |-> "malformed", rest |-> c.rest]
                 ELSE IF ck.key = <<>> THEN mimeLoop(h, c.rest)
                 ELSE mimeLoop(addHeader(h, ck.key, From(v, LeadBlanks(v) + 1)), c.rest)

\* Reader.ReadMIMEHeader: the map is always made; a first line that starts
\* with a blank is a ProtocolError
ReadMIMEHeader(r) ==
    IF r # <<>> /\ IsBlank(r[1])
    THEN [h |-> <<>>, err |-> "malformed", rest |-> readLine(r).rest]
    ELSE mimeLoop(<<>>, r)

----------------------------------------------------------------------------
(* net/url.Parse on the characters used here (no '?', '@', '[', digits or    *)
(* control characters reach it: strings.Fields has removed the spaces)      *)

ishex(c) == c \in {"b", "B", "c", "C", "f", "F"}

\* unescape's check: every '%' is followed by two hexadecimal digits
validEscapes(s) ==
    \A i \in 1..Len(s) :
        s[i] = "%" => (i + 2 <= Len(s) /\ ishex(s[i+1]) /\ ishex(s[i+2]))

RECURSIVE ToLower(_)
ToLower(s) == IF s = <<>> THEN <<>> ELSE <<Lower(Head(s))>> \o ToLower(Tail(s))

\* getScheme: letters up to a ':' are the scheme; a ':' in first place is
\* "missing protocol scheme"; any other character means there is no scheme
getScheme(u) ==
    IF \A i \in 1..Len(u) : u[i] \in Letters
    THEN [ok |-> TRUE, scheme |-> <<>>, rest |-> u]
    ELSE LET i == CHOOSE i \in 1..Len(u) :
                      u[i] \notin Letters /\ \A j \in 1..(i-1) : u[j] \in Letters
         IN  IF u[i] # ":" THEN [ok |-> TRUE, scheme |-> <<>>, rest |-> u]
             ELSE IF i = 1 THEN [ok |-> FALSE, scheme |-> <<>>, rest |-> <<>>]
             ELSE [ok |-> TRUE, scheme |-> SubSeq(u, 1, i-1), rest |-> From(u, i+1)]

\* parseHost: what follows the last ':' must be a port (digits: none here),
\* and the host must unescape
validHost(host) ==
    /\ LastIndexOf(host, ":") # 0 => LastIndexOf(host, ":") = Len(host)
    /\ validEscapes(host)

NoURL == [Scheme |-> <<>>, Opaque |-> <<>>, Host |-> <<>>, Path |-> <<>>, Fragment |-> <<>>]

\* url.parse(u, viaRequest = false) for the part before '#'
urlparse(u) ==
    LET gs     == getScheme(u)
        scheme == ToLower(gs.scheme)
        rest   == gs.rest
        auth   == scheme # <<>> \/ ~HasPrefix(rest, <<"/", "/", "/">>)
        r2     == From(rest, 3)
        cut    == IndexOf(r2, "/")
        host   == IF cut = 0 THEN r2 ELSE SubSeq(r2, 1, cut - 1)
        path   == IF cut = 0 THEN <<>> ELSE From(r2, cut)
        seg    == IF IndexOf(rest, "/") = 0 THEN rest
                  ELSE SubSeq(rest, 1, IndexOf(rest, "/") - 1)
    IN  IF ~gs.ok THEN [ok |-> FALSE, url |-> NoURL]
        ELSE IF ~HasPrefix(rest, <<"/">>) /\ scheme # <<>>
        THEN [ok |-> TRUE, url |-> [NoURL EXCEPT !.Scheme = scheme, !.Opaque = rest]]
        ELSE IF ~HasPrefix(rest, <<"/">>) /\ Contains(seg, ":")
        THEN [ok |-> FALSE, url |-> NoURL]
        ELSE IF auth /\ HasPrefix(rest, <<"/", "/">>)
        THEN IF validHost(host) /\ validEscapes(path)
             THEN [ok |-> TRUE,
                   url |-> [NoURL EXCEPT !.Scheme = scheme, !.Host = host, !.Path = path]]
             ELSE [ok |-> FALSE, url |-> NoURL]
        ELSE IF validEscapes(rest)
        THEN [ok |-> TRUE, url |-> [NoURL EXCEPT !.Scheme = scheme, !.Path = rest]]
        ELSE [ok |-> FALSE, url |-> NoURL]

\* url.Parse: the fragment is cut at the first '#', the rest is parsed, then
\* the fragment is set
urlParse(rawURL) ==
    LET i    == IndexOf(rawURL, "#")
        u    == IF i = 0 THEN rawURL ELSE SubSeq(rawURL, 1, i-1)
        frag == IF i = 0 THEN <<>> ELSE From(rawURL, i+1)
        p    == urlparse(u)
    IN  IF ~p.ok \/ ~validEscapes(frag) THEN [ok |-> FALSE, url |-> NoURL]
        ELSE [ok |-> TRUE, url |-> [p.url EXCEPT !.Fragment = frag]]

----------------------------------------------------------------------------
(* path/filepath.Join on names without '.' elements *)

\* filepath.Clean: runs of '/' become one, a trailing '/' is dropped
RECURSIVE squeeze(_)
squeeze(p) ==
    IF Len(p) < 2 THEN p
    ELSE IF p[1] = "/" /\ p[2] = "/" THEN squeeze(Tail(p))
    ELSE <<Head(p)>> \o squeeze(Tail(p))

Clean(p) ==
    LET q == squeeze(p)
    IN  IF q = <<>> THEN <<".">>
        ELSE IF Len(q) > 1 /\ q[Len(q)] = "/" THEN SubSeq(q, 1, Len(q) - 1)
        ELSE q

\* filepath.Join(a, b): the elements from the first non-empty one on, joined
\* with '/' and cleaned
Join(a, b) ==
    IF a # <<>> THEN Clean(a \o <<"/">> \o b)
    ELSE IF b # <<>> THEN Clean(b)
    ELSE <<>>

----------------------------------------------------------------------------
(* The files under the base directory, and text/template *)

\* the name Parse is called with
MainName == <<"m">>

\* a file's text from its lines: each line but the last ends with "\n", the
\* last one too when nl holds
RECURSIVE JoinLines(_, _)
JoinLines(ls, nl) ==
    IF ls = <<>> THEN <<>>
    ELSE IF Len(ls) = 1 THEN Head(ls) \o (IF nl THEN <<LF>> ELSE <<>>)
    ELSE Head(ls) \o <<LF>> \o JoinLines(Tail(ls), nl)

\* the placeholder {{.Host}} is written "@"
Placeholder == "@"

\* f: a body file that names itself and holds a placeholder
FileF == <<"<", "f", LF, Placeholder, LF>>

\* k: a literal body file whose last line has no "\n"
FileK == <<"b">>

\* the directory: resolved path -> text as written (main file m, body files
\* f and k; nothing else exists)
Disk ==
    (Join(Path, MainName) :> JoinLines(src, eofNL))
    @@ (Join(Path, <<"f">>) :> FileF)
    @@ (Join(Path, <<"k">>) :> FileK)

\* tpl.Execute: every {{.Host}} is replaced by the data's Host
RECURSIVE Execute(_, _)
Execute(text, host) ==
    IF text = <<>> THEN <<>>
    ELSE (IF Head(text) = Placeholder THEN host ELSE <<Head(text)>>)
         \o Execute(Tail(text), host)

----------------------------------------------------------------------------
(* errors.go: an error is its kind, its file and the text it quotes *)

NoErr == [kind |-> "nil", file |-> <<>>, text |-> <<>>]

TemplateError(f) == [kind |-> "TemplateError", file |-> f, text |-> <<>>]

InvalidRequestFileError(f) == [kind |-> "InvalidRequestFileError", file |-> f, text |-> <<>>]

InvalidRequestLineError(f, l) == [kind |-> "InvalidRequestLineError", file |-> f, text |-> l]

InvalidURLError(f, u) == [kind |-> "InvalidURLError", file |-> f, text |-> u]

InvalidHeaderError(f) == [kind |-> "InvalidHeaderError", file |-> f, text |-> <<>>]

----------------------------------------------------------------------------
(* Parser *)

requestLineURL == 1
requestLineMethodURL == 2
requestLineMethodURLProto == 3

\* http.MethodGet
MethodGet == <<"G", "E", "T">>

\* &http.Request{Method: m, Proto: p}: URL, Header and Body are nil
NewRequest(m, p) ==
    [Method |-> m, Proto |-> p, URL |-> <<>>, Header |-> <<>>, Body |-> <<>>]

\* Parser.file
file(fileName) == Join(Path, fileName)

\* Parser.exec: template.ParseFiles fails on a file that cannot be read,
\* Execute fails on a field the data does not have
exec(fileName, d) ==
    LET f == file(fileName)
    IN  IF f \notin DOMAIN Disk THEN [err |-> TemplateError(f), buf |-> <<>>]
        ELSE IF Contains(Disk[f], Placeholder) /\ d = <<>>
        THEN [err |-> TemplateError(f), buf |-> <<>>]
        ELSE [err |-> NoErr,
              buf |-> Execute(Disk[f], IF d = <<>> THEN <<>> ELSE d[1])]

\* isComment that knows '#' only
isCommentHashOnly(l) == HasPrefix(l, <<"#">>)

\* isComment
isComment(l) == HasPrefix(l, <<"#">>) \/ HasPrefix(l, <<"/", "/">>)

\* parseURL that forgets the base URL
parseURLNoBase(fileName, s) ==
    LET u == urlParse(s)
    IN  IF ~u.ok THEN [url |-> <<>>, err |-> InvalidURLError(file(fileName), s)]
        ELSE [url |-> <<u.url>>, err |-> NoErr]

\* Parser.parseURL
parseURL(fileName, s) ==
    LET rawURL == BaseURL \o s
        u      == urlParse(rawURL)
    IN  IF ~u.ok THEN [url |-> <<>>, err |-> InvalidURLError(file(fileName), rawURL)]
        ELSE [url |-> <<u.url>>, err |-> NoErr]

\* parseRequestLine that takes three or more fields as method, URL, protocol
parseRequestLineAtLeast3(fileName, l) ==
    LET fields == Fields(l)
        with(r, u) == [req |-> <<[r EXCEPT !.URL = u.url]>>, err |-> u.err]
    IN  CASE Len(fields) = requestLineURL ->
                with(NewRequest(MethodGet, <<>>), parseURL(fileName, fields[1]))
          [] Len(fields) = requestLineMethodURL ->
                with(NewRequest(fields[1], <<>>), parseURL(fileName, fields[2]))
          [] Len(fields) >= requestLineMethodURLProto ->
                with(NewRequest(fields[1], fields[3]), parseURL(fileName, fields[2]))
          [] OTHER ->
                [req |-> <<>>, err |-> InvalidRequestLineError(file(fileName), l)]

\* Parser.parseRequestLine: on a URL error the request is returned with it
parseRequestLine(fileName, l) ==
    LET fields == Fields(l)
        with(r, u) == [req |-> <<[r EXCEPT !.URL = u.url]>>, err |-> u.err]
    IN  CASE Len(fields) = requestLineURL ->
                with(NewRequest(MethodGet, <<>>), parseURL(fileName, fields[1]))
          [] Len(fields) = requestLineMethodURL ->
                with(NewRequest(fields[1], <<>>), parseURL(fileName, fields[2]))
          [] Len(fields) = requestLineMethodURLProto ->
                with(NewRequest(fields[1], fields[3]), parseURL(fileName, fields[2]))
          [] OTHER ->
                [req |-> <<>>, err |-> InvalidRequestLineError(file(fileName), l)]

\* appendFile that leaves out the httpEOL after the file
appendFileNoEOL(b, fileName, d) ==
    LET e == exec(fileName, d)
    IN  IF e.err # NoErr THEN [sb |-> b, err |-> e.err]
        ELSE [sb |-> b \o e.buf, err |-> NoErr]

\* Parser.appendFile: the rendered file, then httpEOL
appendFile(b, fileName, d) ==
    LET e == exec(fileName, d)
    IN  IF e.err # NoErr THEN [sb |-> b, err |-> e.err]
        ELSE [sb |-> b \o e.buf \o httpEOL, err |-> NoErr]

\* an error return that keeps the request built so far
FailKeepsRequest(e) == [req |-> req, err |-> e]

\* Parse returns (nil, err)
Fail(e) == [req |-> <<>>, err |-> e]

\* Parse returns (req, nil)
Succeed(r) == [req |-> <<r>>, err |-> NoErr]

\* Parse, lines 30-35: the main file is rendered and a Reader is put over it
Exec ==
    /\ pc = "start"
    /\ LET e == exec(MainName, data)
       IN  IF e.err # NoErr
           THEN pc' = "done" /\ ret' = Fail(e.err) /\ rd' = rd
           ELSE pc' = "request" /\ ret' = ret /\ rd' = e.buf
    /\ UNCHANGED <<BaseURL, Path, data, src, eofNL, req, sb, line, nskip>>

\* Parser.parseRequest, one turn of its loop, and Parse's lines 37-40
ParseRequest ==
    /\ pc = "request"
    /\ LET l == ReadContinuedLine(rd)
           p == parseRequestLine(MainName, l.line)
       IN  IF l.eof
           THEN /\ pc' = "done"
                /\ ret' = Fail(InvalidRequestFileError(file(MainName)))
                /\ UNCHANGED <<rd, req, line, nskip>>
           ELSE IF isComment(l.line)
           THEN /\ rd' = l.rest
                /\ line' = <<l.line>>
                /\ nskip' = nskip + 1
                /\ UNCHANGED <<pc, req, ret>>
           ELSE IF p.err # NoErr
           THEN /\ pc' = "done"
                /\ ret' = Fail(p.err)
                /\ rd' = l.rest
                /\ line' = <<l.line>>
                /\ UNCHANGED <<req, nskip>>
           ELSE /\ pc' = "headers"
                /\ req' = p.req
                /\ rd' = l.rest
                /\ line' = <<l.line>>
                /\ UNCHANGED <<ret, nskip>>
    /\ UNCHANGED <<BaseURL, Path, data, src, eofNL, sb>>

\* Parse that takes the end of input in the header block for an error
ParseHeadersEOFIsError ==
    /\ pc = "headers"
    /\ LET m == ReadMIMEHeader(rd)
           r == [req[1] EXCEPT !.Header = <<m.h>>]
       IN  /\ rd' = m.rest
           /\ req' = <<r>>
           /\ IF m.err # "nil"
              THEN pc' = "done" /\ ret' = Fail(InvalidHeaderError(file(MainName)))
              ELSE pc' = "body" /\ ret' = ret
    /\ UNCHANGED <<BaseURL, Path, data, src, eofNL, sb, line, nskip>>

\* Parser.parseHeaders and Parse's lines 42-52
ParseHeaders ==
    /\ pc = "headers"
    /\ LET m == ReadMIMEHeader(rd)
           r == [req[1] EXCEPT !.Header = <<m.h>>]
       IN  /\ rd' = m.rest
           /\ req' = <<r>>
           /\ IF m.err = "EOF" THEN pc' = "done" /\ ret' = Succeed(r)
              ELSE IF m.err # "nil"
              THEN pc' = "done" /\ ret' = Fail(InvalidHeaderError(file(MainName)))
              ELSE pc' = "body" /\ ret' = ret
    /\ UNCHANGED <<BaseURL, Path, data, src, eofNL, sb, line, nskip>>

\* Parser.parseBody, one turn of its loop (or its end), and Parse's lines 54-58
ParseBody ==
    /\ pc = "body"
    /\ LET l == readLine(rd)
           a == appendFile(sb, TrimSpace(Tail(l.line)), data)
           r == [req[1] EXCEPT !.Body = IF Len(sb) > 0 THEN <<sb>> ELSE <<>>]
       IN  IF l.eof
           THEN /\ pc' = "done"
                /\ req' = <<r>>
                /\ ret' = Succeed(r)
                /\ UNCHANGED <<rd, sb>>
           ELSE IF HasPrefix(l.line, <<"<">>)
           THEN IF a.err # NoErr
                THEN /\ pc' = "done"
                     /\ ret' = Fail(a.err)
                     /\ rd' = l.rest
                     /\ UNCHANGED <<req, sb>>
                ELSE /\ sb' = a.sb
                     /\ rd' = l.rest
                     /\ UNCHANGED <<pc, req, ret>>
           ELSE /\ sb' = sb \o l.line \o httpEOL
                /\ rd' = l.rest
                /\ UNCHANGED <<pc, req, ret>>
    /\ UNCHANGED <<BaseURL, Path, data, src, eofNL, line, nskip>>

----------------------------------------------------------------------------
(* The files parsed *)

MaxLines == 3
MaxBody == 2

LBlank == <<>>
LHash == <<"#", "c">>
LSlash == <<"/", "/", "c">>
LUrl == <<"u">>
LGet == <<"G", SP, "/", "u">>
LProto == <<"G", TAB, "u", SP, SP, "P">>
LExtra == <<"G", SP, "u", SP, "P", SP, "X">>
LCont == <<SP, "u">>
LHeader == <<"g", ":", SP, "u">>
LHeader2 == <<"G", ":", "g">>
LBadURL == <<"G", SP, "%">>
LInclK == <<"<", "k">>
LInclK2 == <<"<", SP, "k", SP>>
LInclF == <<"<", "f">>
LInclG == <<"<", "g">>
LTpl == <<"G", SP, Placeholder>>
LText == <<"b">>
LTextCR == <<"b", CR>>

Lines ==
    {LBlank, LHash, LSlash, LUrl, LGet, LProto, LExtra, LCont, LHeader,
     LBadURL, LTpl}

BodyLines ==
    {LBlank, LHash, LCont, LText, LTextCR, LInclK, LInclK2, LInclF, LInclG, LGet}

SeqsUpTo(S, n) == UNION {[1..k -> S] : k \in 0..n}

\* any lines in any order
FreeFiles == SeqsUpTo(Lines, MaxLines)

\* a request line and header lines up to the end of the input
HeaderFiles ==
    {<<t>> \o h : t \in {LUrl, LGet, LProto}, h \in SeqsUpTo({LHeader, LHeader2}, MaxLines)}

\* a request line, a header block, a blank line and a body
BodyFiles ==
    {<<LGet>> \o h \o <<LBlank>> \o b :
        h \in {<<>>, <<LHeader2>>, <<LHeader2, LHeader>>},
        b \in SeqsUpTo(BodyLines, MaxBody)}

\* whether rendering the file reads the data (only then does it matter that
\* the data may lack the field)
UsesData(ls) == \E i \in 1..Len(ls) : ls[i] \in {LTpl, LInclF}

\* the Parser values: the tests' (no base URL, a directory with a trailing
\* '/'), and a base URL with no directory
Parsers ==
    {[BaseURL |-> <<>>, Path |-> <<"t", "/">>],
     [BaseURL |-> <<"h", ":", "/", "/">>, Path |-> <<>>]}

Init ==
    /\ src \in FreeFiles \cup HeaderFiles \cup BodyFiles
    /\ eofNL \in BOOLEAN
    /\ \E c \in Parsers : BaseURL = c.BaseURL /\ Path = c.Path
    /\ data \in {<< <<"h">> >>} \cup (IF UsesData(src) THEN {<<>>} ELSE {})
    /\ pc = "start"
    /\ rd = <<>>
    /\ req = <<>>
    /\ sb = <<>>
    /\ line = <<>>
    /\ ret = [req |-> <<>>, err |-> NoErr]
    /\ nskip = 0

Next == Exec \/ ParseRequest \/ ParseHeaders \/ ParseBody

Spec == Init /\ [][Next]_vars

----------------------------------------------------------------------------
(* What the properties are stated with: the lines as written and the        *)
(* results expected of them, written out rather than computed by the parser *)

Done == pc = "done"

Ok == Done /\ ret.err = NoErr

\* the request line has been parsed and Parse has not failed since
PastRequestLine == pc \in {"headers", "body"} \/ Ok

\* filepath.Join(Path, name) for the two directories used, written out
Resolved(name) == IF Path = <<>> THEN name ELSE <<"t", "/">> \o name

\* the request lines that parse, and what each says
ReqLines == {LUrl, LGet, LProto}

ExpMethod(t) == IF t = LUrl THEN <<"G", "E", "T">> ELSE <<"G">>

ExpField(t) == IF t = LGet THEN <<"/", "u">> ELSE <<"u">>

ExpProto(t) == IF t = LProto THEN <<"P">> ELSE <<>>

\* the URL a field stands for under the base URL used: u, /u, h://u, h:///u
ExpURL(fld) ==
    LET none == <<>>
        url(s, h, p) == [Scheme |-> s, Opaque |-> none, Host |-> h, Path |-> p, Fragment |-> none]
    IN  IF BaseURL = <<>> THEN url(none, none, fld)
        ELSE IF fld[1] # "/" THEN url(<<"h">>, fld, none)
        ELSE url(<<"h">>, none, fld)

NoColon(l) == \A j \in 1..Len(l) : l[j] # ":"

HeaderToks == {LHeader, LHeader2}

\* the header map a block of the two header lines stands for: both have the
\* key G, the values are u and g
ExpHeaders(hs) ==
    IF hs = <<>> THEN <<>>
    ELSE (<<"G">> :> [i \in 1..Len(hs) |-> IF hs[i] = LHeader THEN <<"u">> ELSE <<"g">>])

\* the file is a request line, header lines, a blank line and a body
HasShape ==
    /\ Len(src) >= 2
    /\ src[1] \in ReqLines
    /\ \E k \in 2..Len(src) : src[k] = LBlank /\ \A i \in 2..(k-1) : src[i] \in HeaderToks

BlankAt ==
    CHOOSE k \in 2..Len(src) : src[k] = LBlank /\ \A i \in 2..(k-1) : src[i] \in HeaderToks

\* the lines written after the blank line
BodyToks == SubSeq(src, BlankAt + 1, Len(src))

\* how many of them are lines of the text: an empty last line without "\n"
\* is no line
NBody ==
    IF BodyToks # <<>> /\ BodyToks[Len(BodyToks)] = <<>> /\ ~eofNL
    THEN Len(BodyToks) - 1 ELSE Len(BodyToks)

\* the i-th of them without its line ending ("\n", or "\r\n")
Raw(i) ==
    LET l == BodyToks[i]
    IN  IF l # <<>> /\ l[Len(l)] = CR /\ (i < Len(BodyToks) \/ eofNL)
        THEN SubSeq(l, 1, Len(l) - 1) ELSE l

Literal(l) == ~HasPrefix(l, <<"<">>) /\ ~Contains(l, Placeholder)

\* what the i-th body line adds to the body
Contribution(i) ==
    LET l == BodyToks[i]
    IN  IF l \in {LInclK, LInclK2} THEN <<"b", CR, LF>>
        ELSE IF l = LInclF THEN <<"<", "f", LF>> \o data[1] \o <<LF, CR, LF>>
        ELSE Raw(i) \o <<CR, LF>>

ExpBody(n) == Concat([i \in 1..n |-> Contribution(i)])

\* the body lines that name a file that cannot be rendered
BadInclude(l) == l = LInclG \/ (l = LInclF /\ data = <<>>)

----------------------------------------------------------------------------
(* Properties *)

\* C1: a request line of 1 field gives method GET, URL = the field, no
\* protocol; of 2 fields method = field 1, URL = field 2, no protocol; of 3
\* fields method, URL, protocol = fields 1, 2, 3.  The URL parsed is always
\* the base URL followed by the URL field as written (also when it does not
\* parse: the error quotes that text).
C1_RequestLineFields ==
    /\ PastRequestLine =>
         LET f == Fields(line[1])
             n == Len(f)
         IN  /\ n \in {1, 2, 3}
             /\ req[1].Method = (IF n = 1 THEN <<"G", "E", "T">> ELSE f[1])
             /\ req[1].Proto = (IF n = 3 THEN f[3] ELSE <<>>)
             /\ req[1].URL = <<urlParse(BaseURL \o f[IF n = 1 THEN 1 ELSE 2]).url>>
    /\ (Done /\ ret.err.kind = "InvalidURLError") =>
         LET f == Fields(line[1])
         IN  /\ Len(f) \in {1, 2, 3}
             /\ ret.err.text = BaseURL \o f[IF Len(f) = 1 THEN 1 ELSE 2]
    /\ (PastRequestLine /\ src # <<>> /\ src[1] \in ReqLines
            /\ (Len(src) = 1 \/ src[2] # LCont)) =>
         /\ req[1].Method = ExpMethod(src[1])
         /\ req[1].Proto = ExpProto(src[1])
         /\ req[1].URL = <<ExpURL(ExpField(src[1]))>>

\* a request line of 3 fields was parsed under a base URL, and one whose URL
\* does not parse was refused
C1_Witness ==
    /\ Ok
    /\ BaseURL # <<>>
    /\ src = <<LHash, LProto>>
    /\ req[1].Proto = <<"P">>

\* C2: a request line of 0 or of 4 or more fields makes Parse fail with
\* InvalidRequestLineError holding the resolved path of the file and the
\* line; no request is returned.
C2_BadFieldCount ==
    /\ (line # <<>> /\ ~isComment(line[1]) /\ Len(Fields(line[1])) \notin {1, 2, 3}) =>
         /\ Done
         /\ ret = [req |-> <<>>,
                   err |-> [kind |-> "InvalidRequestLineError",
                            file |-> Resolved(<<"m">>), text |-> line[1]]]
    /\ (Done /\ ret.err.kind # "TemplateError"
             /\ src # <<>> /\ src[1] = LExtra /\ (Len(src) = 1 \/ src[2] # LCont)) =>
         /\ ret.err.kind = "InvalidRequestLineError"
         /\ ret.err.text = LExtra
    /\ (Done /\ ret.err.kind # "TemplateError"
             /\ src # <<>> /\ src[1] = LBlank /\ (Len(src) > 1 \/ eofNL)) =>
         /\ ret.err.kind = "InvalidRequestLineError"
         /\ ret.err.text = <<>>

\* a line of 4 fields after a comment was refused
C2_Witness ==
    /\ Done
    /\ src = <<LSlash, LExtra>>
    /\ Path # <<>>
    /\ ret.err.kind = "InvalidRequestLineError"
    /\ ret.err.text = LExtra

\* C3: comment lines and blank lines before a request line are skipped: the
\* parse succeeds and gives the method, URL and protocol of the request line.
C3_LeadingCommentsAndBlanksSkipped ==
    (Done /\ src # <<>> /\ src[Len(src)] \in ReqLines
          /\ \A i \in 1..(Len(src) - 1) : src[i] \in {LBlank, LHash, LSlash}) =>
        /\ ret.err = NoErr
        /\ ret.req[1].Method = ExpMethod(src[Len(src)])
        /\ ret.req[1].Proto = ExpProto(src[Len(src)])
        /\ ret.req[1].URL = <<ExpURL(ExpField(src[Len(src)]))>>

\* C4: when the input ends before a line that is not a comment (an empty
\* file, or comments only, with or without continuation lines), Parse fails
\* with InvalidRequestFileError holding the resolved path and returns no
\* request; and that error is returned only when nothing but comments was read.
C4_NoRequestLine ==
    /\ (Done /\ (src = <<>> \/ src[1] # LCont)
             /\ \A i \in 1..Len(src) : src[i] \in {LHash, LSlash, LCont}) =>
         ret = [req |-> <<>>,
                err |-> [kind |-> "InvalidRequestFileError",
                         file |-> Resolved(<<"m">>), text |-> <<>>]]
    /\ (Done /\ ret.err.kind = "InvalidRequestFileError") =>
         /\ req = <<>>
         /\ \A i \in 1..Len(src) : src[i] \in {LHash, LSlash, LCont, LBlank}
         /\ nskip <= Len(src)

\* a file of two comments ended the parse with InvalidRequestFileError
C4_Witness ==
    /\ Done
    /\ src = <<LHash, LSlash>>
    /\ nskip = 2
    /\ ret.err.kind = "InvalidRequestFileError"

\* C5: the end of input right after the request line, or in or after the
\* header block, is no error: the request is returned with a header map that
\* is there (empty when no header was read) and no body.  InvalidHeaderError
\* is returned only for a line of the header block that is no header.
C5_EndOfInputInHeaders ==
    /\ Ok => ret.req[1].Header # <<>>
    /\ (Done /\ src # <<>> /\ src[1] \in ReqLines
             /\ \A i \in 2..Len(src) : src[i] \in HeaderToks) =>
         /\ ret.err = NoErr
         /\ ret.req[1].Body = <<>>
         /\ ret.req[1].Header = <<ExpHeaders(SubSeq(src, 2, Len(src)))>>
    /\ (Done /\ ret.err.kind = "InvalidHeaderError") =>
         /\ ret.req = <<>>
         /\ ret.err.file = Resolved(<<"m">>)
         /\ \E i \in 2..Len(src) : src[i] \notin {LBlank, LCont} /\ NoColon(src[i])

\* the input ended after two header lines, the last without "\n"
C5_Witness ==
    /\ Ok
    /\ ~eofNL
    /\ src = <<LGet, LHeader2, LHeader>>
    /\ ret.req[1].Header = <<(<<"G">> :> << <<"g">>, <<"u">> >>)>>
    /\ ret.req[1].Body = <<>>

\* C6: when no body line begins with '<', the body is every line after the
\* blank line that ends the header block, in order, each followed by "\r\n";
\* the body is absent exactly when no line follows the header block.
C6_LiteralBody ==
    (Done /\ HasShape /\ \A i \in 1..Len(BodyToks) : Literal(BodyToks[i])) =>
        /\ ret.err = NoErr
        /\ ret.req[1].Body = (IF NBody = 0 THEN <<>> ELSE <<ExpBody(NBody)>>)
        /\ (ret.req[1].Body = <<>>) <=> (NBody = 0)

\* two literal lines, one of them ending in "\r\n", became the body
C6_Witness ==
    /\ Ok
    /\ src = <<LGet, LHeader2, LBlank, LTextCR, LCont>>
    /\ ret.req[1].Body = << <<"b", CR, LF, SP, "u", CR, LF>> >>

\* C7: a body line beginning with '<' adds the rendered file it names (the
\* rest of the line without the surrounding space, under the base directory,
\* rendered with the caller's data) and one "\r\n"; what the file holds is
\* not read for '<' lines again.
C7_IncludedFile ==
    (Done /\ HasShape
          /\ (\E i \in 1..Len(BodyToks) : HasPrefix(BodyToks[i], <<"<">>))
          /\ \A i \in 1..Len(BodyToks) :
                ~BadInclude(BodyToks[i]) /\ ~Contains(BodyToks[i], Placeholder)) =>
        /\ ret.err = NoErr
        /\ ret.req[1].Body = <<ExpBody(NBody)>>

\* the file that names itself was added once, with the data's Host in it,
\* after the literal file named with spaces around its name
C7_Witness ==
    /\ Ok
    /\ src = <<LGet, LBlank, LInclK2, LInclF>>
    /\ ret.req[1].Body = << <<"b", CR, LF, "<", "f", LF, "h", LF, CR, LF>> >>

\* C8: Parse returns no request with an error, whatever the stage, and with
\* no error it returns a request with a parsed URL and a header map.  A body
\* file that cannot be rendered gives TemplateError with that file's
\* resolved path, the main file one with the main file's path.
C8_NoPartialResult ==
    Done =>
        /\ ret.err # NoErr => ret.req = <<>>
        /\ ret.err = NoErr =>
             /\ Len(ret.req) = 1
             /\ ret.req[1].URL # <<>>
             /\ ret.req[1].Header # <<>>
        /\ ret.err.kind \in {"nil", "TemplateError", "InvalidRequestFileError",
                             "InvalidRequestLineError", "InvalidURLError",
                             "InvalidHeaderError"}
        /\ (ret.err.kind = "TemplateError" /\ req = <<>>) =>
             /\ ret.err.file = Resolved(<<"m">>)
             /\ data = <<>>
        /\ (ret.err.kind = "TemplateError" /\ req # <<>>) =>
             /\ HasShape
             /\ \E i \in 1..Len(BodyToks) :
                   /\ BadInclude(BodyToks[i])
                   /\ \A j \in 1..(i-1) : ~BadInclude(BodyToks[j])
                   /\ ret.err.file = Resolved(IF BodyToks[i] = LInclG THEN <<"g">> ELSE <<"f">>)

\* a body file that does not exist ended the parse after a line was added
C8_Witness ==
    /\ Done
    /\ src = <<LGet, LBlank, LText, LInclG>>
    /\ sb # <<>>
    /\ ret = [req |-> <<>>,
              err |-> [kind |-> "TemplateError", file |-> Resolved(<<"g">>), text |-> <<>>]]

\* C9: a file of several requests gives one request per unit and the body of
\* a unit holds nothing of a later unit: where a comment line and a request
\* line follow the first unit, its body ends before them.
C9_LaterUnitNotInBody ==
    (Done /\ HasShape /\ Len(BodyToks) >= 2
          /\ BodyToks[Len(BodyToks) - 1] = LHash /\ BodyToks[Len(BodyToks)] = LGet
          /\ \A i \in 1..(Len(BodyToks) - 2) : BodyToks[i] = LText) =>
        /\ ret.err = NoErr
        /\ ret.req[1].Body =
              (IF Len(BodyToks) = 2 THEN <<>> ELSE <<ExpBody(Len(BodyToks) - 2)>>)

\* C10: a URL split over two lines, the second beginning with a blank, is
\* put together again: same method, same protocol, the unsplit URL.
C10_SplitURLReassembled ==
    (Done /\ Len(src) = 2 /\ src[1] \in {LUrl, LGet} /\ src[2] = LCont) =>
        /\ ret.err = NoErr
        /\ ret.req[1].Method = ExpMethod(src[1])
        /\ ret.req[1].Proto = <<>>
        /\ ret.req[1].URL = <<ExpURL(ExpField(src[1]) \o <<"u">>)>>

=============================================================================
